---- MODULE Spec2Model ----
(***************************************************************************)
(* State machine of the TranscriptionPanel component                       *)
(* (src/components/TranscriptionPanel.tsx): the React state and refs, the  *)
(* asynchronous operations startRecording and handleFileUpload, the        *)
(* streaming sessions they open through ai.live.connect, and the audio     *)
(* hardware objects of the live path.                                      *)
(*                                                                         *)
(* Every operation that passes the guards of its handler gets the next     *)
(* operation id o; the session, the media stream, the audio context and    *)
(* the script processor created by operation o carry the same id.  A ref   *)
(* holds an id, 0 standing for null.  One action is one run-to-completion  *)
(* task of the event loop: a handler up to its first pending await, or the *)
(* continuation of an await with the microtasks it triggers.               *)
(***************************************************************************)
EXTENDS Integers, Sequences, FiniteSets, TLC

\* ------------------------------------------------------------------ bounds
MaxOps == 2               \* operations started in a behaviour of Spec
MaxSoloOps == 1           \* operations started in a behaviour of SpecSolo
MaxBlocks == 1            \* audio blocks delivered by the script processors
MaxChunks == 1            \* the longest uploaded file, in chunks
MaxEvents == 2            \* server messages in a behaviour of Spec
MaxSoloEvents == 1        \* server messages in a behaviour of SpecSolo
MaxTranscriptEvents == 3  \* server messages in a behaviour of SpecTranscript
MaxStreamChunks == 3      \* the longest uploaded file of SpecStream, in chunks
MaxStreamBlocks == 3      \* audio blocks delivered in a behaviour of SpecStream
MaxCalls == 2             \* calls of generateSpeechFromText in SpecSpeech

\* ------------------------------------------------------- program constants
chunkSize == 4096
bufferSize == 4096

Ops == 1..MaxOps

NoError == "null"
ApiKeyError == "API_KEY environment variable not set."
SessionErrorMsg == "Error en la sesion de transcripcion. Intente de nuevo."
MicrophoneError == "No se pudo acceder al microfono. Por favor, verifique los permisos."
FileError == "Error al procesar el archivo de audio."

\* Lengths (in samples) of the resampled buffer of an uploaded file.
\* An empty buffer, a whole number of chunks, and a last chunk of one sample.
AudioLengths ==
    {0, MaxChunks * chunkSize, (MaxChunks - 1) * chunkSize + 1}

\* Server messages: serverContent.inputTranscription (it, text) and
\* serverContent.turnComplete (tc).
Messages ==
    { [it |-> TRUE,  text |-> <<"a">>, tc |-> FALSE],
      [it |-> TRUE,  text |-> <<"b">>, tc |-> FALSE],
      [it |-> FALSE, text |-> <<>>,    tc |-> TRUE],
      [it |-> TRUE,  text |-> <<"a">>, tc |-> TRUE] }

VARIABLES
    \* React state of the component
    isRecording, isProcessing, transcription, error,
    \* refs
    sessionPromiseRef, audioContextRef, mediaStreamRef,
    scriptProcessorRef, mediaStreamSourceRef,
    \* environment
    apiKey, mounted,
    \* per operation: which handler started it and where its async body is
    kind, pc, audioData, i,
    \* per session
    promise, socket, thens, wire, closeAsked, logged, unhandled,
    currentTranscription, events,
    \* audio hardware of the live path
    track, tap, context, trackStops, blocks,
    \* recordings stopped with the record button
    stopped,
    \* React state of the text-to-speech panel (its error is speechError)
    text, audioUrl, isLoading, speechError,
    \* the document chosen last, where its extraction is, the parser called
    file, extraction, parser,
    \* calls of generateSpeechFromText: how many, and how each one ended
    calls, outcome

uiVars == <<isRecording, isProcessing, transcription, error>>
hwRefs == <<audioContextRef, mediaStreamRef, scriptProcessorRef, mediaStreamSourceRef>>
envVars == <<apiKey, mounted>>
opVars == <<kind, pc, audioData, i>>
sessVars == <<sessionPromiseRef, promise, socket, thens, wire, closeAsked, logged, unhandled>>
textVars == <<currentTranscription, events>>
hwVars == <<track, tap, context, trackStops, blocks>>

speechVars ==
    <<text, audioUrl, isLoading, speechError, file, extraction, parser,
      calls, outcome>>

vars ==
    <<uiVars, hwRefs, envVars, opVars, sessVars, textVars, hwVars, stopped,
      speechVars>>

\* Operations started so far.
nOps == Cardinality({o \in Ops : kind[o] # "none"})

RECURSIVE SumTo(_, _)
SumTo(f, n) == IF n = 0 THEN 0 ELSE f[n] + SumTo(f, n - 1)

\* Audio blocks and transcript messages delivered so far.
TotalBlocks == SumTo(blocks, MaxOps)
TotalEvents == SumTo([o \in Ops |-> Len(events[o])], MaxOps)

\* ---------------------------------------------------------------- sessions
\* The session side of the state as one value, so that startSession and
\* stopSession are functions of it.
Sess ==
    [ref |-> sessionPromiseRef, promise |-> promise, socket |-> socket,
     thens |-> thens, wire |-> wire, closeAsked |-> closeAsked,
     logged |-> logged, unhandled |-> unhandled]

SetSess(S) ==
    /\ sessionPromiseRef' = S.ref
    /\ promise' = S.promise
    /\ socket' = S.socket
    /\ thens' = S.thens
    /\ wire' = S.wire
    /\ closeAsked' = S.closeAsked
    /\ logged' = S.logged
    /\ unhandled' = S.unhandled

CloseCall == [t |-> "close", off |-> 0, len |-> 0]
Chunk(off, len) == [t |-> "chunk", off |-> off, len |-> len]
SendCb(off, len) == [t |-> "send", off |-> off, len |-> len]
ResumeCb(len) == [t |-> "resume", off |-> 0, len |-> len]

\* A callback run with the session object of o: session.close(),
\* session.sendRealtimeInput(chunk), or the continuation of
\* `await sessionPromise` in handleFileUpload, which sends the first chunk
\* of the loop when the buffer is not empty.
RunCallback(S, o, cb) ==
    IF cb.t = "close"
    THEN [S EXCEPT !.wire[o] = Append(@, CloseCall), !.socket[o] = "closed"]
    ELSE IF cb.len > 0
         THEN [S EXCEPT !.wire[o] = Append(@, Chunk(cb.off, cb.len))]
         ELSE S

\* The same callback when the promise of o is rejected: the chain built by
\* stopSession ends in .catch(console.error); the chain built by
\* onaudioprocess has no catch.
RejectCallback(S, o, cb) ==
    IF cb.t = "close" THEN [S EXCEPT !.logged = @ \cup {o}]
    ELSE IF cb.t = "send" THEN [S EXCEPT !.unhandled = @ \cup {o}]
    ELSE S

RECURSIVE RunThens(_, _, _)
RunThens(S, o, cbs) ==
    IF cbs = <<>> THEN S
    ELSE RunThens(RunCallback(S, o, Head(cbs)), o, Tail(cbs))

RECURSIVE RejectThens(_, _, _)
RejectThens(S, o, cbs) ==
    IF cbs = <<>> THEN S
    ELSE RejectThens(RejectCallback(S, o, Head(cbs)), o, Tail(cbs))

\* then putting a callback in front of the ones already waiting.
ThenPrepends(S, o, cb) ==
    IF S.promise[o] = "fulfilled" THEN RunCallback(S, o, cb)
    ELSE IF S.promise[o] = "rejected" THEN RejectCallback(S, o, cb)
    ELSE [S EXCEPT !.thens[o] = <<cb>> \o @]

\* sessionPromise.then(cb): runs now on a settled promise, is queued in
\* registration order on a pending one.
Then(S, o, cb) ==
    IF S.promise[o] = "fulfilled" THEN RunCallback(S, o, cb)
    ELSE IF S.promise[o] = "rejected" THEN RejectCallback(S, o, cb)
    ELSE [S EXCEPT !.thens[o] = Append(@, cb)]

\* The credential check of line 33 left out.
HasCredentialAlways == TRUE

\* !process.env.API_KEY (line 33), negated.
HasCredential == apiKey

\* startSession past the credential check: ai.live.connect is called and
\* its promise is stored in the slot.
startSession(S, o) ==
    [S EXCEPT !.promise[o] = "pending", !.socket[o] = "connecting", !.ref = o]

\* stopSession without line 85: the slot keeps the promise.
stopSessionKeepsRef(S) ==
    IF S.ref # 0
    THEN [Then(S, S.ref, CloseCall) EXCEPT !.closeAsked[S.ref] = S.promise[S.ref]]
    ELSE S

\* stopSession closing only a session that is already there, instead of
\* chaining the close on the promise.
stopSessionIfOpen(S) ==
    IF S.ref # 0
    THEN [(IF S.promise[S.ref] = "fulfilled"
           THEN RunCallback(S, S.ref, CloseCall) ELSE S) EXCEPT
            !.closeAsked[S.ref] = S.promise[S.ref], !.ref = 0]
    ELSE S

\* stopSession (lines 82-87); closeAsked keeps the state the promise was in
\* when the close was chained on it.
stopSession(S) ==
    IF S.ref # 0
    THEN [Then(S, S.ref, CloseCall) EXCEPT
            !.closeAsked[S.ref] = S.promise[S.ref], !.ref = 0]
    ELSE S

\* ---------------------------------------------------------------- hardware
Hw ==
    [stream |-> mediaStreamRef, context |-> audioContextRef,
     processor |-> scriptProcessorRef, source |-> mediaStreamSourceRef,
     track |-> track, tap |-> tap, ctx |-> context, trackStops |-> trackStops]

SetHw(H) ==
    /\ mediaStreamRef' = H.stream
    /\ audioContextRef' = H.context
    /\ scriptProcessorRef' = H.processor
    /\ mediaStreamSourceRef' = H.source
    /\ track' = H.track
    /\ tap' = H.tap
    /\ context' = H.ctx
    /\ trackStops' = H.trackStops

\* Lines 134-142 of stopRecording: every call is guarded by ?. on its ref.
releaseAudio(H) ==
    LET h1 == IF H.stream # 0
              THEN [H EXCEPT !.track[H.stream] = "stopped",
                             !.trackStops[H.stream] = @ + 1]
              ELSE H
        h2 == IF h1.processor # 0
              THEN [h1 EXCEPT !.tap[h1.processor] = FALSE]
              ELSE h1
        h3 == IF h2.context # 0 /\ h2.ctx[h2.context] # "closed"
              THEN [h2 EXCEPT !.ctx[h2.context] = "closed"]
              ELSE h2
    IN  [h3 EXCEPT !.stream = 0, !.processor = 0, !.source = 0, !.context = 0]

\* No document chosen yet.
NoFile == [type |-> "none", ext |-> "none"]

Calls == 1..MaxCalls

\* ------------------------------------------------------------------- Init
Init ==
    /\ isRecording = FALSE
    /\ isProcessing = FALSE
    /\ transcription = <<>>
    /\ error = NoError
    /\ sessionPromiseRef = 0
    /\ audioContextRef = 0
    /\ mediaStreamRef = 0
    /\ scriptProcessorRef = 0
    /\ mediaStreamSourceRef = 0
    /\ apiKey \in BOOLEAN
    /\ mounted = TRUE
    /\ kind = [o \in Ops |-> "none"]
    /\ pc = [o \in Ops |-> "none"]
    /\ audioData = [o \in Ops |-> 0]
    /\ i = [o \in Ops |-> 0]
    /\ promise = [o \in Ops |-> "none"]
    /\ socket = [o \in Ops |-> "none"]
    /\ thens = [o \in Ops |-> <<>>]
    /\ wire = [o \in Ops |-> <<>>]
    /\ closeAsked = [o \in Ops |-> "none"]
    /\ logged = {}
    /\ unhandled = {}
    /\ currentTranscription = [o \in Ops |-> <<>>]
    /\ events = [o \in Ops |-> <<>>]
    /\ track = [o \in Ops |-> "none"]
    /\ tap = [o \in Ops |-> FALSE]
    /\ context = [o \in Ops |-> "none"]
    /\ trackStops = [o \in Ops |-> 0]
    /\ blocks = [o \in Ops |-> 0]
    /\ stopped = {}
    /\ text = <<>>
    /\ audioUrl = 0
    /\ isLoading = FALSE
    /\ speechError = NoError
    /\ file = NoFile
    /\ extraction = "none"
    /\ parser = "none"
    /\ calls = 0
    /\ outcome = [r \in Calls |-> "none"]

\* ------------------------------------------------------------ live recording
\* slice taking chunkSize samples whatever is left of the buffer.
MinIsFirst(a, b) == a

\* The length of audioData.slice(i, i + chunkSize): slice stops at the end
\* of the buffer.
Min(a, b) == IF a < b THEN a ELSE b

\* The operation that last set the recording flag.
CurrentRecording ==
    CHOOSE o \in Ops :
        /\ kind[o] = "rec" /\ promise[o] # "none"
        /\ \A p \in Ops : (kind[p] = "rec" /\ promise[p] # "none") => p <= o

\* startRecording without the guard of line 90.
startRecordingUnguarded(limit) ==
    /\ mounted
    /\ nOps < limit
    /\ LET o == nOps + 1 IN
        /\ transcription' = <<>>
        /\ kind' = [kind EXCEPT ![o] = "rec"]
        /\ IF HasCredential
           THEN /\ error' = NoError
                /\ isRecording' = TRUE
                /\ SetSess(startSession(Sess, o))
                /\ pc' = [pc EXCEPT ![o] = "getUserMedia"]
           ELSE /\ error' = ApiKeyError
                /\ isRecording' = FALSE
                /\ UNCHANGED sessVars
                /\ pc' = [pc EXCEPT ![o] = "noSession"]
    /\ UNCHANGED <<isProcessing, hwRefs, envVars, audioData, i,
                   textVars, hwVars, stopped>>
    /\ UNCHANGED speechVars

\* startRecording up to `await getUserMedia` (lines 89-102).
startRecording(limit) ==
    /\ mounted
    /\ IF isRecording
       THEN UNCHANGED vars
       ELSE /\ nOps < limit
            /\ LET o == nOps + 1 IN
                /\ transcription' = <<>>
                /\ kind' = [kind EXCEPT ![o] = "rec"]
                /\ IF HasCredential
                   THEN /\ error' = NoError
                        /\ isRecording' = TRUE
                        /\ SetSess(startSession(Sess, o))
                        /\ pc' = [pc EXCEPT ![o] = "getUserMedia"]
                   ELSE /\ error' = ApiKeyError
                        /\ isRecording' = FALSE
                        /\ UNCHANGED sessVars
                        /\ pc' = [pc EXCEPT ![o] = "noSession"]
            /\ UNCHANGED <<isProcessing, hwRefs, envVars, audioData, i,
                           textVars, hwVars, stopped>>
    /\ UNCHANGED speechVars

\* getUserMedia resolves: lines 103-120.
MicGranted(o) ==
    /\ pc[o] = "getUserMedia"
    /\ pc' = [pc EXCEPT ![o] = "returned"]
    /\ mediaStreamRef' = o
    /\ audioContextRef' = o
    /\ mediaStreamSourceRef' = o
    /\ scriptProcessorRef' = o
    /\ track' = [track EXCEPT ![o] = "live"]
    /\ context' = [context EXCEPT ![o] = "running"]
    /\ tap' = [tap EXCEPT ![o] = TRUE]
    /\ UNCHANGED <<uiVars, envVars, kind, audioData, i, sessVars, textVars,
                   trackStops, blocks, stopped>>
    /\ UNCHANGED speechVars

\* getUserMedia rejects: the catch block, lines 122-127.
MicDenied(o) ==
    /\ pc[o] = "getUserMedia"
    /\ pc' = [pc EXCEPT ![o] = "micDenied"]
    /\ error' = MicrophoneError
    /\ isRecording' = FALSE
    /\ SetSess(stopSession(Sess))
    /\ UNCHANGED <<isProcessing, transcription, hwRefs, envVars, kind,
                   audioData, i, textVars, hwVars, stopped>>
    /\ UNCHANGED speechVars

\* scriptProcessor.onaudioprocess (lines 113-117): one block is encoded and
\* handed to sessionPromise.then.
onaudioprocess(o, limit) ==
    /\ tap[o]
    /\ context[o] = "running"
    /\ TotalBlocks < limit
    /\ blocks' = [blocks EXCEPT ![o] = @ + 1]
    /\ SetSess(Then(Sess, o, SendCb(blocks[o] * bufferSize, bufferSize)))
    /\ UNCHANGED <<uiVars, hwRefs, envVars, opVars, textVars,
                   track, tap, context, trackStops, stopped>>
    /\ UNCHANGED speechVars

AudioProcess(o) == onaudioprocess(o, MaxBlocks)

\* stopRecording (lines 130-143) as a function of the state it touches.
Panel == [isRecording |-> isRecording, sess |-> Sess, hw |-> Hw]

stopRecordingOn(P) ==
    [isRecording |-> FALSE, sess |-> stopSession(P.sess),
     hw |-> releaseAudio(P.hw)]

stopRecording ==
    /\ LET P == stopRecordingOn(Panel) IN
        /\ isRecording' = P.isRecording
        /\ SetSess(P.sess)
        /\ SetHw(P.hw)
    /\ UNCHANGED <<isProcessing, transcription, error, apiKey, opVars,
                   textVars, blocks>>

\* The record button while recording (line 211); stopped remembers the
\* recording the button stopped.
StopRecording ==
    /\ mounted
    /\ isRecording
    /\ stopRecording
    /\ stopped' = stopped \cup {CurrentRecording}
    /\ UNCHANGED mounted
    /\ UNCHANGED speechVars

\* The effect cleanup (lines 190-192).
Unmount ==
    /\ mounted
    /\ mounted' = FALSE
    /\ stopRecording
    /\ UNCHANGED stopped
    /\ UNCHANGED speechVars

\* --------------------------------------------------------------- file upload
\* handleFileUpload up to its first await (lines 145-161); the input is
\* disabled while isProcessing (line 224).
handleFileUpload(limit) ==
    /\ mounted
    /\ ~isProcessing
    /\ nOps < limit
    /\ LET o == nOps + 1 IN
        /\ transcription' = <<>>
        /\ kind' = [kind EXCEPT ![o] = "upload"]
        /\ IF HasCredential
           THEN /\ error' = NoError
                /\ isProcessing' = TRUE
                /\ SetSess(startSession(Sess, o))
                /\ pc' = [pc EXCEPT ![o] = "decode"]
           ELSE /\ error' = ApiKeyError
                /\ isProcessing' = FALSE
                /\ UNCHANGED sessVars
                /\ pc' = [pc EXCEPT ![o] = "noSession"]
    /\ UNCHANGED <<isRecording, hwRefs, envVars, audioData, i, textVars,
                   hwVars, stopped>>
    /\ UNCHANGED speechVars

\* The catch block of handleFileUpload (lines 182-187) run on S; the
\* position records which await threw.
UploadCatch(o, S, thrown) ==
    /\ pc' = [pc EXCEPT ![o] = thrown]
    /\ error' = FileError
    /\ isProcessing' = FALSE
    /\ SetSess(stopSession(S))

\* arrayBuffer, decodeAudioData or resampleAudioBuffer rejects.
DecodeFails(o) ==
    /\ pc[o] = "decode"
    /\ UploadCatch(o, Sess, "decodeFailed")
    /\ UNCHANGED <<isRecording, transcription, hwRefs, envVars, kind,
                   audioData, i, textVars, hwVars, stopped>>
    /\ UNCHANGED speechVars

\* Decoding and resampling succeed with n samples; the function reaches
\* `await sessionPromise` (line 166) and, on a session that is already
\* there, the first iteration of the send loop.
DecodeOk(o, n) ==
    /\ pc[o] = "decode"
    /\ audioData' = [audioData EXCEPT ![o] = n]
    /\ LET S1 == Then(Sess, o, ResumeCb(Min(n, chunkSize))) IN
        IF promise[o] = "rejected"
        THEN UploadCatch(o, S1, "connectFailed")
        ELSE /\ SetSess(S1)
             /\ pc' = [pc EXCEPT ![o] =
                        IF promise[o] = "pending" THEN "awaitSession"
                        ELSE IF n > 0 THEN "pacing" ELSE "settling"]
             /\ UNCHANGED <<error, isProcessing>>
    /\ UNCHANGED <<isRecording, transcription, hwRefs, envVars, kind, i,
                   textVars, hwVars, stopped>>
    /\ UNCHANGED speechVars

\* The send loop closing the session as soon as it ends, without the
\* settling timer of line 177.
PacingTimerClosesAtOnce(o) ==
    /\ pc[o] = "pacing"
    /\ LET j == i[o] + chunkSize IN
        /\ i' = [i EXCEPT ![o] = j]
        /\ IF j < audioData[o]
           THEN /\ SetSess(RunCallback(Sess, o,
                      SendCb(j, Min(chunkSize, audioData[o] - j))))
                /\ UNCHANGED <<pc, isProcessing>>
           ELSE /\ pc' = [pc EXCEPT ![o] = "settling"]
                /\ SetSess(stopSession(Sess))
                /\ isProcessing' = FALSE
    /\ UNCHANGED <<isRecording, transcription, error, hwRefs, envVars, kind,
                   audioData, textVars, hwVars, stopped>>
    /\ UNCHANGED speechVars

\* The 50 ms timer of the send loop fires (lines 169-175): i advances and
\* either the next chunk is sent or the settling timer is set (line 177).
PacingTimer(o) ==
    /\ pc[o] = "pacing"
    /\ LET j == i[o] + chunkSize IN
        /\ i' = [i EXCEPT ![o] = j]
        /\ IF j < audioData[o]
           THEN /\ SetSess(RunCallback(Sess, o,
                      SendCb(j, Min(chunkSize, audioData[o] - j))))
                /\ UNCHANGED pc
           ELSE /\ pc' = [pc EXCEPT ![o] = "settling"]
                /\ UNCHANGED sessVars
    /\ UNCHANGED <<uiVars, hwRefs, envVars, kind, audioData, textVars,
                   hwVars, stopped>>
    /\ UNCHANGED speechVars

\* The 2000 ms settling timer fires (lines 177-180).
SettleTimer(o) ==
    /\ pc[o] = "settling"
    /\ pc' = [pc EXCEPT ![o] = "returned"]
    /\ SetSess(stopSession(Sess))
    /\ isProcessing' = FALSE
    /\ UNCHANGED <<isRecording, transcription, error, hwRefs, envVars, kind,
                   audioData, i, textVars, hwVars, stopped>>
    /\ UNCHANGED speechVars

\* ------------------------------------------------------------ session events
\* The connection opens: onopen (lines 44-47), the promise of connect is
\* fulfilled and the callbacks waiting on it run in registration order.
ConnectOpens(o) ==
    /\ promise[o] = "pending"
    /\ socket[o] = "connecting"
    /\ error' = NoError
    /\ LET S1 == [Sess EXCEPT !.promise[o] = "fulfilled", !.socket[o] = "open",
                              !.thens[o] = <<>>]
       IN SetSess(RunThens(S1, o, thens[o]))
    /\ pc' = [pc EXCEPT ![o] =
                IF pc[o] = "awaitSession"
                THEN (IF audioData[o] > 0 THEN "pacing" ELSE "settling")
                ELSE @]
    /\ UNCHANGED <<isRecording, isProcessing, transcription, hwRefs, envVars,
                   kind, audioData, i, textVars, hwVars, stopped>>
    /\ UNCHANGED speechVars

\* connect rejects: the waiting callbacks are rejected in order, and a
\* handleFileUpload waiting at line 166 enters its catch block.
ConnectRejects(o) ==
    /\ promise[o] = "pending"
    /\ LET S1 == [Sess EXCEPT !.promise[o] = "rejected", !.socket[o] = "closed",
                              !.thens[o] = <<>>]
           S2 == RejectThens(S1, o, thens[o])
       IN IF pc[o] = "awaitSession"
          THEN UploadCatch(o, S2, "connectFailed")
          ELSE SetSess(S2) /\ UNCHANGED <<pc, error, isProcessing>>
    /\ UNCHANGED <<isRecording, transcription, hwRefs, envVars, kind,
                   audioData, i, textVars, hwVars, stopped>>
    /\ UNCHANGED speechVars

\* onerror (lines 64-69); the socket is gone afterwards.
SessionError(o) ==
    /\ socket[o] \in {"connecting", "open"}
    /\ error' = SessionErrorMsg
    /\ isRecording' = FALSE
    /\ isProcessing' = FALSE
    /\ socket' = [socket EXCEPT ![o] = "closed"]
    /\ UNCHANGED <<transcription, hwRefs, envVars, opVars, sessionPromiseRef,
                   promise, thens, wire, closeAsked, logged, unhandled,
                   textVars, hwVars, stopped>>
    /\ UNCHANGED speechVars

\* The server ends the connection without an error event: onclose (line 70)
\* writes to the console.
SessionDropped(o) ==
    /\ socket[o] = "open"
    /\ socket' = [socket EXCEPT ![o] = "closed"]
    /\ UNCHANGED <<uiVars, hwRefs, envVars, opVars, sessionPromiseRef,
                   promise, thens, wire, closeAsked, logged, unhandled,
                   textVars, hwVars, stopped>>
    /\ UNCHANGED speechVars

\* onmessage with the two ifs of lines 49 and 54 in the other order.
onmessageSeparatorFirst(cur, m) ==
    LET withSep == IF m.tc THEN Append(cur, " ") ELSE cur
    IN  IF m.it THEN withSep \o m.text ELSE withSep

\* onmessage (lines 48-56): the new value of currentTranscription.
onmessage(cur, m) ==
    LET withText == IF m.it THEN cur \o m.text ELSE cur
    IN  IF m.tc THEN Append(withText, " ") ELSE withText

OnMessage(o, m, limit) ==
    /\ socket[o] = "open"
    /\ TotalEvents < limit
    /\ events' = [events EXCEPT ![o] = Append(@, m)]
    /\ currentTranscription' =
          [currentTranscription EXCEPT ![o] = onmessage(@, m)]
    /\ transcription' =
          IF m.it THEN currentTranscription[o] \o m.text ELSE transcription
    /\ UNCHANGED <<isRecording, isProcessing, error, hwRefs, envVars, opVars,
                   sessVars, hwVars, stopped>>
    /\ UNCHANGED speechVars

\* ------------------------------------------------------------ specification
\* The steps of an operation under way, and the two ways to stop.
Continue ==
    \/ StopRecording
    \/ Unmount
    \/ \E o \in Ops : MicGranted(o)
    \/ \E o \in Ops : MicDenied(o)
    \/ \E o \in Ops : AudioProcess(o)
    \/ \E o \in Ops : DecodeFails(o)
    \/ \E o \in Ops, n \in AudioLengths : DecodeOk(o, n)
    \/ \E o \in Ops : PacingTimer(o)
    \/ \E o \in Ops : SettleTimer(o)
    \/ \E o \in Ops : ConnectOpens(o)
    \/ \E o \in Ops : ConnectRejects(o)
    \/ \E o \in Ops : SessionError(o)
    \/ \E o \in Ops : SessionDropped(o)

StartRecording == startRecording(MaxOps)
HandleFileUpload == handleFileUpload(MaxOps)
Message == \E o \in Ops, m \in Messages : OnMessage(o, m, MaxEvents)

Next ==
    \/ StartRecording
    \/ HandleFileUpload
    \/ Message
    \/ Continue

\* The panel with up to MaxOps operations, overlapping in every way the
\* handlers allow.
Spec == Init /\ [][Next]_vars

StartRecordingSolo == startRecording(MaxSoloOps)
HandleFileUploadSolo == handleFileUpload(MaxSoloOps)
MessageSolo == \E o \in Ops, m \in Messages : OnMessage(o, m, MaxSoloEvents)

NextSolo ==
    \/ StartRecordingSolo
    \/ HandleFileUploadSolo
    \/ MessageSolo
    \/ Continue

\* The same panel with up to MaxSoloOps operations.
SpecSolo == Init /\ [][NextSolo]_vars

StartRecordingOnce == startRecording(1)
HandleFileUploadOnce == handleFileUpload(1)
MessageTranscript ==
    \E o \in Ops, m \in Messages : OnMessage(o, m, MaxTranscriptEvents)

NextTranscript ==
    \/ StartRecordingOnce
    \/ HandleFileUploadOnce
    \/ MessageTranscript
    \/ Continue

\* The same panel with one operation, hence one session, and a longer
\* stream of server messages.
SpecTranscript == Init /\ [][NextTranscript]_vars

\* Lengths (in samples) of the files uploaded in SpecStream: empty, one
\* sample, a whole number of chunks, and a last chunk of one sample.
StreamLengths ==
    {0, 1, MaxStreamChunks * chunkSize, (MaxStreamChunks - 1) * chunkSize + 1}

Capture == \E o \in Ops : onaudioprocess(o, MaxStreamBlocks)
Decoded == \E o \in Ops, n \in StreamLengths : DecodeOk(o, n)

NextStream ==
    \/ StartRecordingOnce
    \/ HandleFileUploadOnce
    \/ StopRecording
    \/ Unmount
    \/ \E o \in Ops : MicGranted(o)
    \/ \E o \in Ops : MicDenied(o)
    \/ Capture
    \/ \E o \in Ops : DecodeFails(o)
    \/ Decoded
    \/ \E o \in Ops : PacingTimer(o)
    \/ \E o \in Ops : SettleTimer(o)
    \/ \E o \in Ops : ConnectOpens(o)
    \/ \E o \in Ops : ConnectRejects(o)
    \/ \E o \in Ops : SessionError(o)
    \/ \E o \in Ops : SessionDropped(o)

\* One operation, a recording of several audio blocks or an upload of
\* several chunks, and no server messages.
SpecStream == Init /\ [][NextStream]_vars

\* ------------------------------------------------------ text-to-speech panel
\* TextToSpeechPanel (src/unnamed/part_001) and generateSpeechFromText
\* (src/services/geminiService.ts).  A text is a sequence of characters.
panelVars == <<uiVars, hwRefs, mounted, opVars, sessVars, textVars, hwVars, stopped>>

PdfType == "application/pdf"
DocxType == "application/vnd.openxmlformats-officedocument.wordprocessingml.document"
PlainType == "text/plain"

\* The documents the user may choose: a MIME type and the end of the name.
Files == [type : {PdfType, DocxType, PlainType}, ext : {".pdf", ".docx", ".txt"}]

\* Typed texts and document contents.
Texts == { <<>>, <<" ">>, <<"a">>, <<" ", "a", " ">> }

\* `Procesando archivo: ${file.name}...`
Placeholder == <<"Procesando archivo">>

UnsupportedError == "Tipo de archivo no soportado. Por favor, suba un PDF o DOCX."
PdfError == "No se pudo procesar el archivo PDF."
DocxError == "No se pudo procesar el archivo DOCX."
ReadError == "Error al procesar el archivo"
NoKeyFailure == "Fallo al generar audio: API_KEY environment variable not set."
NoAudioFailure == "Fallo al generar audio: No audio data received from API."
ServiceFailure == "Fallo al generar audio"

\* String.prototype.trim on a sequence of characters.
RECURSIVE trimStart(_)
trimStart(t) == IF t # <<>> /\ Head(t) = " " THEN trimStart(Tail(t)) ELSE t

RECURSIVE trimEnd(_)
trimEnd(t) ==
    IF t # <<>> /\ t[Len(t)] = " " THEN trimEnd(SubSeq(t, 1, Len(t) - 1)) ELSE t

trim(t) == trimEnd(trimStart(t))

\* The calls of generateSpeechFromText that are awaited.
InFlight == {r \in Calls : outcome[r] = "pending"}

\* The textarea (line 105), disabled while loading (line 106).
TypeText(t) ==
    /\ ~isLoading
    /\ text' = t
    /\ UNCHANGED <<audioUrl, isLoading, speechError, file, extraction, parser,
                   calls, outcome>>
    /\ UNCHANGED <<panelVars, apiKey>>

\* handleFileChange up to the end of the handler (lines 17-75) for the
\* document f; the button that opens the file dialog is disabled while
\* loading (line 112).  throws: the FileReader calls throw (lines 66-70).
handleFileChange(f, throws) ==
    /\ ~isLoading
    /\ file' = f
    /\ audioUrl' = 0
    /\ parser' = "none"
    /\ IF f.type = PdfType \/ f.ext = ".docx"
       THEN IF throws
            THEN /\ speechError' = ReadError
                 /\ text' = <<>>
                 /\ isLoading' = FALSE
                 /\ extraction' = "none"
            ELSE /\ speechError' = NoError
                 /\ text' = Placeholder
                 /\ isLoading' = TRUE
                 /\ extraction' = "reading"
       ELSE /\ speechError' = UnsupportedError
            /\ text' = <<>>
            /\ isLoading' = FALSE
            /\ extraction' = "none"
    /\ UNCHANGED <<calls, outcome>>
    /\ UNCHANGED <<panelVars, apiKey>>

\* reader.onload (lines 29-31 and 49-51): the parser of the branch taken
\* in handleFileChange is called with the bytes read.
ReaderLoaded ==
    /\ extraction = "reading"
    /\ extraction' = "parsing"
    /\ parser' = IF file.type = PdfType THEN "pdf" ELSE "docx"
    /\ UNCHANGED <<text, audioUrl, isLoading, speechError, file, calls, outcome>>
    /\ UNCHANGED <<panelVars, apiKey>>

\* The read fails: the readers have no onerror, nothing runs.
ReaderFails ==
    /\ extraction = "reading"
    /\ extraction' = "readFailed"
    /\ UNCHANGED <<text, audioUrl, isLoading, speechError, file, parser,
                   calls, outcome>>
    /\ UNCHANGED <<panelVars, apiKey>>

\* The parser returns the content (lines 38 and 52, then finally).
ExtractOk(content) ==
    /\ extraction = "parsing"
    /\ extraction' = "none"
    /\ text' = content
    /\ isLoading' = FALSE
    /\ UNCHANGED <<audioUrl, speechError, file, parser, calls, outcome>>
    /\ UNCHANGED <<panelVars, apiKey>>

\* The parser throws (lines 39-41 and 53-55, then finally).
ExtractFails ==
    /\ extraction = "parsing"
    /\ extraction' = "none"
    /\ speechError' = IF parser = "pdf" THEN PdfError ELSE DocxError
    /\ text' = <<>>
    /\ isLoading' = FALSE
    /\ UNCHANGED <<audioUrl, file, parser, calls, outcome>>
    /\ UNCHANGED <<panelVars, apiKey>>

\* handleGenerateAudio without the guard of line 78.
handleGenerateAudioUnguarded ==
    /\ calls < MaxCalls
    /\ calls' = calls + 1
    /\ audioUrl' = 0
    /\ IF apiKey
       THEN /\ speechError' = NoError
            /\ isLoading' = TRUE
            /\ outcome' = [outcome EXCEPT ![calls + 1] = "pending"]
       ELSE /\ speechError' = NoKeyFailure
            /\ isLoading' = FALSE
            /\ outcome' = [outcome EXCEPT ![calls + 1] = "noKey"]
    /\ UNCHANGED <<text, file, extraction, parser>>
    /\ UNCHANGED <<panelVars, apiKey>>

\* handleGenerateAudio without line 81: the previous URL stays.
handleGenerateAudioKeepsUrl ==
    IF trim(text) = <<>> \/ isLoading
    THEN UNCHANGED vars
    ELSE /\ calls < MaxCalls
         /\ calls' = calls + 1
         /\ UNCHANGED audioUrl
         /\ IF apiKey
            THEN /\ speechError' = NoError
                 /\ isLoading' = TRUE
                 /\ outcome' = [outcome EXCEPT ![calls + 1] = "pending"]
            ELSE /\ speechError' = NoKeyFailure
                 /\ isLoading' = FALSE
                 /\ outcome' = [outcome EXCEPT ![calls + 1] = "noKey"]
         /\ UNCHANGED <<text, file, extraction, parser>>
         /\ UNCHANGED <<panelVars, apiKey>>

\* handleGenerateAudio up to its await (lines 77-83).  Without a
\* credential generateSpeechFromText rejects before any request (lines 7-9
\* of geminiService.ts) and the catch and finally blocks run in the same
\* task.
handleGenerateAudio ==
    IF trim(text) = <<>> \/ isLoading
    THEN UNCHANGED vars
    ELSE /\ calls < MaxCalls
         /\ calls' = calls + 1
         /\ audioUrl' = 0
         /\ IF apiKey
            THEN /\ speechError' = NoError
                 /\ isLoading' = TRUE
                 /\ outcome' = [outcome EXCEPT ![calls + 1] = "pending"]
            ELSE /\ speechError' = NoKeyFailure
                 /\ isLoading' = FALSE
                 /\ outcome' = [outcome EXCEPT ![calls + 1] = "noKey"]
         /\ UNCHANGED <<text, file, extraction, parser>>
         /\ UNCHANGED <<panelVars, apiKey>>

\* The service answers with audio: lines 84-89, then finally.
SynthesisOk(r) ==
    /\ outcome[r] = "pending"
    /\ outcome' = [outcome EXCEPT ![r] = "ok"]
    /\ audioUrl' = r
    /\ isLoading' = FALSE
    /\ UNCHANGED <<text, speechError, file, extraction, parser, calls>>
    /\ UNCHANGED <<panelVars, apiKey>>

\* generateContent throws, or the response has no audio (lines 25-28 of
\* geminiService.ts): the catch block, then finally.
SynthesisFails(r, how) ==
    /\ outcome[r] = "pending"
    /\ outcome' = [outcome EXCEPT ![r] = how]
    /\ speechError' = IF how = "noAudio" THEN NoAudioFailure ELSE ServiceFailure
    /\ isLoading' = FALSE
    /\ UNCHANGED <<text, audioUrl, file, extraction, parser, calls>>
    /\ UNCHANGED <<panelVars, apiKey>>

Type == \E t \in Texts : TypeText(t)
HandleFileChange == \E f \in Files, throws \in BOOLEAN : handleFileChange(f, throws)
Extracted == \E content \in Texts : ExtractOk(content)
Synthesized == \E r \in Calls : SynthesisOk(r)
SynthesisFailed == \E r \in Calls, how \in {"threw", "noAudio"} : SynthesisFails(r, how)

NextSpeech ==
    \/ Type
    \/ HandleFileChange
    \/ ReaderLoaded
    \/ ReaderFails
    \/ Extracted
    \/ ExtractFails
    \/ handleGenerateAudio
    \/ Synthesized
    \/ SynthesisFailed

\* The text-to-speech panel alone.
SpecSpeech == Init /\ [][NextSpeech]_vars

\* ================================================================== claims
HasClose(w) == \E k \in 1..Len(w) : w[k].t = "close"
CloseCount(w) == Cardinality({k \in 1..Len(w) : w[k].t = "close"})

\* A session that connect has opened or is opening and that nobody has
\* closed or asked to close.
Unclosed(o) == socket[o] \in {"connecting", "open"} /\ closeAsked[o] = "none"

\* C1: starting an operation while another one is active first tears the
\* active one down: no two sessions are un-closed at the same time.
C1_AtMostOneUnclosedSession ==
    Cardinality({o \in Ops : Unclosed(o)}) <= 1

\* C2: while the recording flag is set, no step starts another recording:
\* startRecording invoked during a recording opens no second session.
C2_NoSecondRecordingWhileRecording ==
    [][isRecording =>
        \A o \in Ops : kind[o] = "none" => kind'[o] # "rec"]_vars

\* A recording is under way with its session un-closed, and another
\* operation could still be started.
C2_Witness ==
    /\ isRecording
    /\ nOps < MaxOps
    /\ \E o \in Ops : kind[o] = "rec" /\ Unclosed(o)

\* C3: without a credential connect is never called, the slot stays empty,
\* both flags are false, and once a handler has run the configuration
\* error is shown.
C3_NoCredentialNoSession ==
    ~apiKey =>
        /\ \A o \in Ops : promise[o] = "none" /\ socket[o] = "none"
        /\ sessionPromiseRef = 0
        /\ ~isRecording
        /\ ~isProcessing
        /\ (nOps > 0 => error = ApiKeyError)

C3_Witness ==
    /\ ~apiKey
    /\ \E o \in Ops : kind[o] \in {"rec", "upload"} /\ pc[o] = "noSession"
    /\ error = ApiKeyError

\* C4: once stopRecording has returned for a recording (here: called by
\* the record button), its microphone track is released and its audio tap
\* delivers no more blocks.
C4_StopReleasesMicrophone ==
    \A o \in stopped : track[o] # "live" /\ ~tap[o]

\* C5: stopRecording applied to the result of stopRecording changes
\* nothing: no second close, no second track.stop(), the same state.
C5_StopRecordingIdempotent ==
    stopRecordingOn(stopRecordingOn(Panel)) = stopRecordingOn(Panel)

\* A recording with a live track was stopped with the button and
\* stopRecording ran a second time at unmount: one track.stop(), one close.
C5_Witness ==
    /\ ~mounted
    /\ \E o \in stopped :
        /\ track[o] = "stopped"
        /\ trackStops[o] = 1
        /\ CloseCount(wire[o]) = 1
    /\ Panel = stopRecordingOn(Panel)

\* The transcript the events of one session spell: the texts in order, one
\* space after each turn-complete marker.
RECURSIVE Spelled(_)
Spelled(es) ==
    IF es = <<>> THEN <<>>
    ELSE LET m == es[Len(es)]
         IN  Spelled(SubSeq(es, 1, Len(es) - 1))
                \o (IF m.it THEN m.text ELSE <<>>)
                \o (IF m.tc THEN <<" ">> ELSE <<>>)

\* C6: the running transcript of a session is what its events spell.
C6_TranscriptIsFold ==
    \A o \in Ops : currentTranscription[o] = Spelled(events[o])

\* [a, TurnComplete, b] gave "a b".
C6_Witness ==
    \E o \in Ops :
        /\ Len(events[o]) = 3
        /\ events[o][1] = [it |-> TRUE, text |-> <<"a">>, tc |-> FALSE]
        /\ events[o][2] = [it |-> FALSE, text |-> <<>>, tc |-> TRUE]
        /\ events[o][3] = [it |-> TRUE, text |-> <<"b">>, tc |-> FALSE]
        /\ currentTranscription[o] = <<"a", " ", "b">>
        /\ transcription = <<"a", " ", "b">>

\* C7: when an open connection ends without the client having closed it
\* (an error or a drop) during a recording or an upload, an error message
\* is shown and both flags are false afterwards.
C7_ErrorOrDropStopsOperation ==
    [][\A o \in Ops :
        (/\ isRecording \/ isProcessing
         /\ socket[o] = "open"
         /\ socket'[o] = "closed"
         /\ wire'[o] = wire[o])
        => (error' # NoError /\ ~isRecording' /\ ~isProcessing')]_vars

\* C8: an upload whose decoding failed has not called connect.
C8_DecodeFailureStartsNoSession ==
    \A o \in Ops : pc[o] = "decodeFailed" => promise[o] = "none"

\* C9: while the recording flag is false no microphone track is live and no
\* audio tap is connected.  A recording stopped with the record button is
\* left aside here (its stop may be what the claim calls pending; C4 is
\* about it), so what remains are the other exits: error and unmount.
C9_MicrophoneReleasedWhenNotRecording ==
    ~isRecording =>
        \A o \in Ops \ stopped : track[o] # "live" /\ ~tap[o]

\* C10: a close asked for while the session was opening waits on the
\* promise; once connect resolves the session is closed, once it rejects
\* the rejection is caught.
C10_DeferredCloseRunsOnOpen ==
    \A o \in Ops :
        closeAsked[o] = "pending" =>
            /\ promise[o] = "pending" => CloseCall \in {thens[o][k] : k \in 1..Len(thens[o])}
            /\ promise[o] = "fulfilled" => socket[o] = "closed" /\ CloseCount(wire[o]) = 1
            /\ promise[o] = "rejected" => o \in logged

C10_Witness ==
    \E o \in Ops :
        /\ closeAsked[o] = "pending"
        /\ promise[o] = "fulfilled"
        /\ socket[o] = "closed"
        /\ HasClose(wire[o])

\* The chunks sent on a session, in the order of the calls.
IsChunk(x) == x.t = "chunk"
ChunksOf(w) == SelectSeq(w, IsChunk)

\* The callbacks waiting on a promise that will send a chunk.
WillSend(cb) == cb.t \in {"send", "resume"} /\ cb.len > 0
QueuedSends(cbs) == SelectSeq(cbs, WillSend)

\* The chunks of a buffer of n samples: chunk k starts at (k-1)*chunkSize
\* and ends with the chunk size or with the buffer.
CeilDiv(n, c) == (n + c - 1) \div c
ExpectedChunks(n) ==
    [k \in 1..CeilDiv(n, chunkSize) |->
        Chunk((k - 1) * chunkSize,
              IF k * chunkSize <= n THEN chunkSize
              ELSE n - (k - 1) * chunkSize)]

\* An upload on which no error has occurred: neither catch block taken, no
\* session error reported.
UploadWithoutError(o) ==
    /\ kind[o] = "upload"
    /\ pc[o] \in {"decode", "awaitSession", "pacing", "settling", "returned"}
    /\ error # SessionErrorMsg

\* C11: the upload asks for the close of its session only when every chunk
\* has been sent and the settling timer has fired, and the processing flag
\* is true until then, as long as no error occurs and the panel stays
\* mounted.
C11_CloseAfterChunksAndSettling ==
    \A o \in Ops :
        (UploadWithoutError(o) /\ mounted) =>
            /\ closeAsked[o] # "none" =>
                  /\ pc[o] = "returned"
                  /\ ChunksOf(wire[o]) = ExpectedChunks(audioData[o])
            /\ closeAsked[o] = "none" => isProcessing
            /\ isProcessing => closeAsked[o] = "none"

\* A file of several chunks went through: all sent, timer fired, close
\* asked, flag reset.
C11_Witness ==
    \E o \in Ops :
        /\ UploadWithoutError(o) /\ mounted
        /\ pc[o] = "returned"
        /\ audioData[o] > chunkSize
        /\ closeAsked[o] = "fulfilled"
        /\ HasClose(wire[o])
        /\ ~isProcessing

\* C12: the send loop sends the chunks of the buffer, in order, one per
\* firing of the pacing timer after the first: while the loop runs the
\* chunks sent are the first i/chunkSize + 1 expected ones, after the loop
\* they are all ceil(n/chunkSize) of them, and none for an empty buffer or
\* before the loop.
C12_ChunksCoverBuffer ==
    \A o \in Ops :
        kind[o] = "upload" =>
            LET sent == ChunksOf(wire[o])
                all == ExpectedChunks(audioData[o])
            IN  /\ pc[o] \in {"noSession", "decode", "awaitSession",
                             "decodeFailed", "connectFailed"} => sent = <<>>
                /\ pc[o] = "pacing" =>
                      /\ Len(sent) = (i[o] \div chunkSize) + 1
                      /\ Len(sent) <= Len(all)
                      /\ sent = SubSeq(all, 1, Len(sent))
                /\ pc[o] \in {"settling", "returned"} =>
                      /\ sent = all
                      /\ Len(sent) = CeilDiv(audioData[o], chunkSize)
                /\ audioData[o] = 0 => sent = <<>>

\* A buffer of one sample more than a whole number of chunks was sent: the
\* last chunk has one sample.
C12_Witness ==
    \E o \in Ops :
        /\ kind[o] = "upload"
        /\ pc[o] = "returned"
        /\ audioData[o] > chunkSize
        /\ audioData[o] % chunkSize = 1
        /\ Len(ChunksOf(wire[o])) = (audioData[o] \div chunkSize) + 1
        /\ ChunksOf(wire[o])[Len(ChunksOf(wire[o]))].len = 1

\* C13: the chunks of a session go out in capture order.  For a recording,
\* the blocks captured so far are, in order, the chunks already sent
\* followed by the ones waiting for the session to open; once it is open
\* none is waiting.  For an upload the offsets sent increase.
C13_ChunksInCaptureOrder ==
    \A o \in Ops :
        LET sent == ChunksOf(wire[o])
            queued == QueuedSends(thens[o])
            both == sent \o queued
        IN  /\ \A k \in 1..(Len(both) - 1) : both[k].off < both[k + 1].off
            /\ (kind[o] = "rec" /\ promise[o] \in {"pending", "fulfilled"}) =>
                  /\ Len(both) = blocks[o]
                  /\ \A k \in 1..Len(both) : both[k].off = (k - 1) * bufferSize
            /\ promise[o] = "fulfilled" => queued = <<>>

\* Blocks captured while the session was opening (the recording was stopped
\* before it opened) have been sent, in order, when it opened.
C13_Witness ==
    \E o \in Ops :
        /\ kind[o] = "rec"
        /\ closeAsked[o] = "pending"
        /\ promise[o] = "fulfilled"
        /\ blocks[o] >= 2
        /\ Len(ChunksOf(wire[o])) = blocks[o]

\* An upload whose handler has nothing left to run: the settling timer has
\* fired or a catch block was taken.
UploadDone(o) ==
    kind[o] = "upload" /\ pc[o] \in {"returned", "decodeFailed", "connectFailed"}

\* C14: an upload that has run to its end has asked for the close of the
\* session it opened (nobody can ask later: the slot no longer holds it).
\* Stated for behaviours in which every operation is an upload.
C14_FinishedUploadAskedClose ==
    (\A p \in Ops : kind[p] # "rec") =>
        \A o \in Ops : UploadDone(o) => closeAsked[o] # "none"

IsPrefix(a, b) == Len(a) <= Len(b) /\ SubSeq(b, 1, Len(a)) = a

\* C18: a step that starts no operation only extends the displayed
\* transcript.
C18_TranscriptOnlyGrows ==
    [][nOps' = nOps => IsPrefix(transcription, transcription')]_vars

\* C19: on no session a chunk is sent after close was called on it.
C19_NoChunkAfterClose ==
    \A o \in Ops :
        \A k, l \in 1..Len(wire[o]) :
            (k < l /\ wire[o][k].t = "close") => wire[o][l].t # "chunk"

\* C20: when the settling timer of an upload fires, no close is asked for
\* or run on the session of another operation.
C20_SettlingTimerClosesOwnSession ==
    [][\A o \in Ops :
        (pc[o] = "settling" /\ pc'[o] = "returned") =>
            \A p \in Ops \ {o} :
                closeAsked'[p] = closeAsked[p] /\ wire'[p] = wire[p]]_vars

\* C15: a step makes a call of the synthesis service only from a text that
\* is not blank and with the loading flag down, and then makes one; at most
\* one call is awaited at any time, and none while a document is being
\* read or parsed.
C15_OneSynthesisAtATime ==
    /\ [](/\ Cardinality(InFlight) <= 1
          /\ InFlight # {} => isLoading /\ extraction = "none"
          /\ extraction \in {"reading", "parsing"} => InFlight = {})
    /\ [][calls' # calls =>
            /\ trim(text) # <<>>
            /\ ~isLoading
            /\ calls' = calls + 1]_vars

\* A second call is awaited after the first one has ended.
C15_Witness ==
    /\ calls = 2
    /\ outcome[1] \in {"ok", "threw", "noAudio"}
    /\ InFlight = {2}
    /\ isLoading

GenerateFailures == {NoKeyFailure, NoAudioFailure, ServiceFailure}

\* C16: a playback URL is shown only with no error and the loading flag
\* down; a step that starts an attempt clears the URL; a step in which an
\* attempt fails leaves its message, the flag down and no URL.
C16_FailedSynthesisShowsNoAudio ==
    /\ [](audioUrl # 0 => speechError = NoError /\ ~isLoading)
    /\ [][/\ calls' # calls => audioUrl' = 0
          /\ \A r \in Calls :
               (outcome[r] # outcome'[r]
                  /\ outcome'[r] \in {"noKey", "threw", "noAudio"}) =>
                  /\ speechError' \in GenerateFailures
                  /\ ~isLoading'
                  /\ audioUrl' = 0]_vars

\* A first attempt gave a URL and the second one failed: message, no URL.
C16_Witness ==
    /\ calls = 2
    /\ outcome[1] = "ok"
    /\ outcome[2] \in {"threw", "noAudio"}
    /\ speechError \in GenerateFailures
    /\ audioUrl = 0
    /\ ~isLoading

SupportedTypes == {PdfType, DocxType}

\* C17: no parser is called on a document whose MIME type is not a
\* supported one.
C17_UnsupportedTypeNotParsed ==
    parser # "none" => file.type \in SupportedTypes

\* C21: a microphone or file error on display is not erased by a step that
\* starts no operation.
C21_FailureMessageStays ==
    [][(error \in {MicrophoneError, FileError} /\ nOps' = nOps)
          => error' # NoError]_vars

====
